---- MODULE Spec2Model ----
(***************************************************************************)
(* A model of ScriptBot's frame engine: Frame / FieldFilter (frame.py),    *)
(* Response.satisfy, Response.hypernym_search, Line.say and Script.execute *)
(* (script.py).                                                            *)
(*                                                                         *)
(* Python strings that the program takes apart or puts together (line     *)
(* texts, frame names, field names, words) are sequences of one-character  *)
(* strings.  Python objects with identity (Frame instances) live in        *)
(* `heap`, a sequence indexed by object id; a dict of frames maps names to *)
(* object ids.  Python's None and the empty string / empty list are all    *)
(* falsy and the code only tests filter attributes for truthiness, so an   *)
(* absent filter attribute is the empty sequence.                          *)
(***************************************************************************)
EXTENDS Integers, Sequences, FiniteSets, TLC

(***************************************************************************)
(* Bounds of the model.                                                    *)
(***************************************************************************)
MaxTokens == 2      \* longest answer, in tokens
MaxDepth == 3       \* deepest nesting of Script.execute calls (defer chain)
MaxPieces == 3      \* longest line text given to say, in pieces
MaxFiles == 2       \* most definition files in a frames directory
MaxFrames == 2      \* most frames in one definition file
MaxSenses == 4      \* senses of an ontology fragment given to hypernym_search
MaxAsks == 2        \* most answers given to one question of the elicitation loop

(***************************************************************************)
(* Generic helpers.                                                        *)
(***************************************************************************)
Range(s) == {s[i] : i \in DOMAIN s}

EmptyMap == <<>>

\* d[k] = v on a dict d (a function)
Put(d, k, v) == [x \in (DOMAIN d) \cup {k} |-> IF x = k THEN v ELSE d[x]]

\* dict.update
Update(d, e) == [x \in (DOMAIN d) \cup (DOMAIN e) |-> IF x \in DOMAIN e THEN e[x] ELSE d[x]]

RECURSIVE SumSeq(_)
SumSeq(s) == IF s = <<>> THEN 0 ELSE Head(s) + SumSeq(Tail(s))

RECURSIVE Concat(_)
Concat(ss) == IF ss = <<>> THEN <<>> ELSE Head(ss) \o Concat(Tail(ss))

\* Python slice s[a:b] with 0-based a, b (already clamped to >= 0 by the callers)
Slice(s, a, b) ==
    LET hi == IF b > Len(s) THEN Len(s) ELSE b
    IN  IF a >= hi THEN <<>> ELSE SubSeq(s, a + 1, hi)

IsPrefix(p, w) == Len(p) <= Len(w) /\ SubSeq(w, 1, Len(p)) = p

(***************************************************************************)
(* The words a user may type, as the tokenizer returns them.               *)
(***************************************************************************)
W_cat == <<"c", "a", "t">>
W_rex == <<"r", "e", "x">>
W_ball == <<"b", "a", "l", "l">>
W_hm == <<"h", "m">>
Words == {W_cat, W_rex, W_ball, W_hm}

(***************************************************************************)
(* The ontology provider (nltk WordNet), a finite acyclic fragment.  A     *)
(* sense is identified by its name, kept as its '.'-separated components   *)
(* ("cat.n.01" is <<"cat","n","01">>).  cat.n.01 has two parents whose     *)
(* paths converge on animal.n.01.                                          *)
(***************************************************************************)
S_cat == <<"cat", "n", "01">>
S_feline == <<"feline", "n", "01">>
S_domestic == <<"domestic_animal", "n", "01">>
S_animal == <<"animal", "n", "01">>
S_organism == <<"organism", "n", "01">>
S_rex == <<"king", "n", "01">>
S_person == <<"person", "n", "01">>
S_ball == <<"ball", "n", "01">>
S_artifact == <<"artifact", "n", "01">>
Senses == {S_cat, S_feline, S_domestic, S_animal, S_organism,
           S_rex, S_person, S_ball, S_artifact}

\* wd.synsets(word)
synsets(word) ==
    CASE word = W_cat -> <<S_cat>>
      [] word = W_rex -> <<S_rex>>
      [] word = W_ball -> <<S_ball>>
      [] OTHER -> <<>>

\* Synset.hypernyms()
hypernyms(sense) ==
    CASE sense = S_cat -> <<S_feline, S_domestic>>
      [] sense = S_feline -> <<S_animal>>
      [] sense = S_domestic -> <<S_animal>>
      [] sense = S_animal -> <<S_organism>>
      [] sense = S_rex -> <<S_person>>
      [] sense = S_person -> <<S_organism>>
      [] sense = S_ball -> <<S_artifact>>
      [] OTHER -> <<>>

\* Synset.lexname()
lexname(sense) ==
    CASE sense \in {S_cat, S_feline, S_domestic, S_animal} -> "noun.animal"
      [] sense \in {S_rex, S_person} -> "noun.person"
      [] sense \in {S_ball, S_artifact} -> "noun.artifact"
      [] OTHER -> "noun.Tops"

\* nltk.pos_tag([word])[0][1]
pos_tag(word) == IF word = W_hm THEN "UH" ELSE "NN"

(***************************************************************************)
(* Frame.FieldFilter.  A regular expression is kept as the literal text it *)
(* spells (no metacharacters), so re.match is a prefix test.               *)
(***************************************************************************)
FieldFilter(lexical, semantic, pos, pattern) ==
    [kind |-> "filter", lexical |-> lexical, semantic |-> semantic,
     pos |-> pos, pattern |-> pattern]

re_match(pattern, word) == IsPrefix(pattern, word)

word_match(fltr, word) ==
    IF fltr.pattern # <<>> /\ ~re_match(fltr.pattern, word) THEN FALSE
    ELSE IF fltr.pos # <<>> /\ pos_tag(word) \notin Range(fltr.pos) THEN FALSE
    ELSE TRUE

\* sense.name()[:sense.name().rfind('.')]
NameStem(sense) == SubSeq(sense, 1, Len(sense) - 1)

sense_match(fltr, sense) ==
    IF fltr.lexical # "" /\ lexname(sense) # fltr.lexical THEN FALSE
    ELSE IF fltr.semantic # <<>>
              /\ ~(\E i \in DOMAIN fltr.semantic : NameStem(sense) = fltr.semantic[i])
         THEN FALSE
    ELSE TRUE

(***************************************************************************)
(* Response.hypernym_search: `match = match or search(hp)` skips the       *)
(* remaining parents once one of them has matched.                         *)
(***************************************************************************)
RECURSIVE hypernym_search(_, _)
RECURSIVE HypernymLoop(_, _, _)
HypernymLoop(hps, fltr, match) ==
    IF hps = <<>> THEN match
    ELSE HypernymLoop(Tail(hps), fltr, match \/ hypernym_search(Head(hps), fltr))

hypernym_search(sense, fltr) ==
    IF sense_match(fltr, sense) THEN TRUE
    ELSE HypernymLoop(hypernyms(sense), fltr, FALSE)

(***************************************************************************)
(* Frames.  A Frame object is [name, fields, bindings]; fields maps a      *)
(* field name to its FieldFilter, bindings maps a bound field name to the  *)
(* word bound to it.  A dict is a function; the model keeps no insertion   *)
(* order (no definition below has two keys that a copy would merge).       *)
(***************************************************************************)
Frame(name, fields) == [name |-> name, fields |-> fields, bindings |-> EmptyMap]

N_pet == <<"p", "e", "t">>
N_toy == <<"t", "o", "y">>
N_tag == <<"t", "a", "g">>
N_nil == <<"n", "i", "l">>
N_ok == <<"o", "k">>
N_who == <<"w", "h", "o">>
N_it == <<"i", "t">>
N_zz == <<"z", "z">>
N_box == <<"b", "o", "x">>

K_kind == <<"k", "i", "n", "d">>
K_name == <<"n", "a", "m", "e">>
K_what == <<"w", "h", "a", "t">>
K_id == <<"i", "d">>

\* <field name="kind" semantic="animal.n"/>: needs a sense at or below animal.n.01
FltAnimal == FieldFilter("", <<(<<"animal", "n">>)>>, <<>>, <<>>)
\* <field name="name" pattern="r" pos="NN"/>: no sense restriction
FltName == FieldFilter("", <<>>, <<"NN">>, <<"r">>)
\* <field name="what" lexical="noun.artifact"/>
FltArtifact == FieldFilter("noun.artifact", <<>>, <<>>, <<>>)
\* <field name="id"/>: every attribute a wildcard
FltAny == FieldFilter("", <<>>, <<>>, <<>>)

PetFrame == Frame(N_pet, (K_kind :> FltAnimal) @@ (K_name :> FltName))
ToyFrame == Frame(N_toy, (K_what :> FltArtifact))
TagFrame == Frame(N_tag, (K_id :> FltAny))
NilFrame == Frame(N_nil, EmptyMap)
OkFrame == Frame(N_ok, EmptyMap)
WhoFrame == Frame(N_who, (K_name :> FltName))
ItFrame == Frame(N_it, (K_id :> FltAny))
BoxFrame == Frame(N_box, (K_id :> FltAny) @@ (K_what :> FltArtifact))

\* the definitions Frame.initialize finds in the frames directory
GlobalDefs == <<OkFrame, WhoFrame, ItFrame>>

(***************************************************************************)
(* Frame.__copy__: `for k, v in self.fields` iterates the dict's KEYS and  *)
(* unpacks each key, a string, into two variables.  A key that is not two  *)
(* characters long raises ValueError; a two-character key "id" yields the  *)
(* entry 'i' -> 'd', whose value is a string, not a FieldFilter.           *)
(***************************************************************************)
UnpackKeys(d) ==
    [c \in {<<k[1]>> : k \in DOMAIN d} |->
        [kind |-> "str", val |-> <<(CHOOSE k \in DOMAIN d : k[1] = c[1])[2]>>]]

Frame_copy(fr) ==
    IF \E k \in (DOMAIN fr.fields) \cup (DOMAIN fr.bindings) : Len(k) # 2
    THEN [err |-> "ValueError", frame |-> fr]
    ELSE [err |-> "none",
          frame |-> [name |-> fr.name,
                     fields |-> UnpackKeys(fr.fields),
                     bindings |-> [c \in DOMAIN UnpackKeys(fr.bindings) |->
                                      UnpackKeys(fr.bindings)[c].val]]]

\* Frame.has
Frame_has(reg, item) == item \in DOMAIN reg

\* Frame.get: the copy is a new object, appended to the heap
Allocate(h, c) ==
    IF c.err # "none" THEN [err |-> c.err, heap |-> h, id |-> 0]
    ELSE [err |-> "none", heap |-> Append(h, c.frame), id |-> Len(h) + 1]

Frame_get(reg, h, item) ==
    IF item \notin DOMAIN reg THEN [err |-> "KeyError", heap |-> h, id |-> 0]
    ELSE Allocate(h, Frame_copy(h[reg[item]]))

(***************************************************************************)
(* Response.satisfy                                                        *)
(***************************************************************************)
\* lines 41-46: the frames list; a name that is both global and local
\* contributes the global copy and the local instance
RECURSIVE Resolve(_, _, _, _, _)
\* g is the outcome of lines 43-44 for the first name
ResolveRest(names, reg, local, h, frames, g) ==
    IF g.err # "none" THEN [err |-> g.err, heap |-> h, frames |-> frames]
    ELSE Resolve(Tail(names), reg, local, g.heap,
                 (IF g.id # 0 THEN Append(frames, g.id) ELSE frames)
                    \o (IF Head(names) \in DOMAIN local
                        THEN <<local[Head(names)]>> ELSE <<>>))

Resolve(names, reg, local, h, frames) ==
    IF names = <<>> THEN [err |-> "none", heap |-> h, frames |-> frames]
    ELSE ResolveRest(names, reg, local, h, frames,
                     IF Frame_has(reg, Head(names)) THEN Frame_get(reg, h, Head(names))
                     ELSE [err |-> "none", heap |-> h, id |-> 0])

\* lines 66-85: does some sense of the word satisfy the filter
AnySense(fltr, senses) ==
    IF fltr.lexical = "" /\ fltr.semantic = <<>> THEN TRUE
    ELSE IF senses = <<>> THEN FALSE
    ELSE \E i \in DOMAIN senses :
            sense_match(fltr, senses[i]) \/ hypernym_search(senses[i], fltr)

any_match(fltr, word) == AnySense(fltr, synsets(word))

\* a binding filed under the word itself, which is no field of the frame
RebindUnderWord(fr, word, hit) ==
    [fr EXCEPT !.bindings = IF hit = {} THEN @ ELSE Put(@, word, word)]

\* lines 60-89 for one word and one frame: every field the word matches is
\* (re)bound to the word, whether or not it was bound before
Rebind(fr, word, hit) ==
    [fr EXCEPT !.bindings =
        [k \in (DOMAIN fr.bindings) \cup hit |->
            IF k \in hit THEN word ELSE fr.bindings[k]]]

BindWord(fr, word) ==
    Rebind(fr, word, {k \in DOMAIN fr.fields :
                         word_match(fr.fields[k], word) /\ any_match(fr.fields[k], word)})

\* a field value that is no FieldFilter has no word_match attribute
BadFilter(fr) == \E k \in DOMAIN fr.fields : fr.fields[k].kind # "filter"

RECURSIVE BindFrames(_, _, _)
BindFrames(frames, word, h) ==
    IF frames = <<>> THEN [err |-> "none", heap |-> h]
    ELSE IF BadFilter(h[Head(frames)]) THEN [err |-> "AttributeError", heap |-> h]
    ELSE BindFrames(Tail(frames), word,
                    [h EXCEPT ![Head(frames)] = BindWord(h[Head(frames)], word)])

RECURSIVE BindTokens(_, _, _)
BindRest(tokens, frames, b) ==
    IF b.err # "none" THEN b ELSE BindTokens(Tail(tokens), frames, b.heap)

BindTokens(tokens, frames, h) ==
    IF tokens = <<>> THEN [err |-> "none", heap |-> h]
    ELSE BindRest(tokens, frames, BindFrames(frames, Head(tokens), h))

\* lines 92-95
CountBound(fr) == Cardinality(DOMAIN fr.bindings)
CountFields(fr) == Cardinality(DOMAIN fr.fields)

\* line 98: {f.name: f for f in frames}
RECURSIVE ByName(_, _, _)
ByName(frames, h, acc) ==
    IF frames = <<>> THEN acc
    ELSE ByName(Tail(frames), h, Put(acc, h[Head(frames)].name, Head(frames)))

\* the ratio sat / total is kept as the pair <<sat, total>>
Failed(e, h) ==
    [err |-> e, heap |-> h, sat |-> <<0, 1>>, list |-> <<>>, frames |-> EmptyMap]

\* lines 91-98, on the frames list and the heap the token loop left
Ratio(frames, h0, h, sat, total) ==
    IF total = 0 THEN Failed("ZeroDivisionError", h0)
    ELSE [err |-> "none", heap |-> h, sat |-> <<sat, total>>,
          list |-> frames, frames |-> ByName(frames, h, EmptyMap)]

Count(frames, h0, b) ==
    IF b.err # "none" THEN Failed(b.err, h0)
    ELSE Ratio(frames, h0, b.heap,
               SumSeq([i \in DOMAIN frames |-> CountBound(b.heap[frames[i]])]),
               SumSeq([i \in DOMAIN frames |-> CountFields(b.heap[frames[i]])]))

Bind(answer, h0, r) ==
    IF r.err # "none" THEN Failed(r.err, h0)
    ELSE Count(r.frames, h0, BindTokens(answer, r.frames, r.heap))

satisfy(to_realize, answer, reg, local, h) ==
    Bind(answer, h, Resolve(to_realize, reg, local, h, <<>>))

(***************************************************************************)
(* Line.say                                                                *)
(***************************************************************************)
Lower == {"a", "b", "c", "d", "e", "f", "g", "h", "i", "j", "k", "l", "m",
          "n", "o", "p", "q", "r", "s", "t", "u", "v", "w", "x", "y", "z"}
Upper == {"A", "B", "C", "D", "E", "F", "G", "H", "I", "J", "K", "L", "M",
          "N", "O", "P", "Q", "R", "S", "T", "U", "V", "W", "X", "Y", "Z"}
\* \s
IsSpace(c) == c \in {" ", "\t", "\n", "\r"}
\* [a-zA-Z\.\_]
IsSlotChar(c) == c \in Lower \cup Upper \cup {".", "_"}

\* text[i] for a 0-based i; "" past the end
At(text, i) == IF i < Len(text) THEN text[i + 1] ELSE ""

\* the end of the longest run of slot characters that starts at 0-based i
RECURSIVE RunEnd(_, _)
RunEnd(text, i) == IF IsSlotChar(At(text, i)) THEN RunEnd(text, i + 1) ELSE i

\* re.finditer(r'\s?\$[a-zA-Z\.\_]+', text) from 0-based pos: the (start, end)
\* spans of the non-overlapping matches, left to right
RECURSIVE FindSlots(_, _)
FindSlots(text, pos) ==
    IF pos >= Len(text) THEN <<>>
    ELSE IF IsSpace(At(text, pos)) /\ At(text, pos + 1) = "$"
               /\ IsSlotChar(At(text, pos + 2))
         THEN <<(<<pos, RunEnd(text, pos + 2)>>)>> \o FindSlots(text, RunEnd(text, pos + 2))
    ELSE IF At(text, pos) = "$" /\ IsSlotChar(At(text, pos + 1))
         THEN <<(<<pos, RunEnd(text, pos + 1)>>)>> \o FindSlots(text, RunEnd(text, pos + 1))
    ELSE FindSlots(text, pos + 1)

\* str.strip('$ ')
RECURSIVE LStrip(_)
LStrip(s) == IF s # <<>> /\ Head(s) \in {"$", " "} THEN LStrip(Tail(s)) ELSE s
RECURSIVE RStrip(_)
RStrip(s) ==
    IF s # <<>> /\ s[Len(s)] \in {"$", " "} THEN RStrip(SubSeq(s, 1, Len(s) - 1)) ELSE s
Strip(s) == RStrip(LStrip(s))

\* str.split('.')
RECURSIVE SplitDot(_, _)
SplitDot(s, cur) ==
    IF s = <<>> THEN <<cur>>
    ELSE IF Head(s) = "." THEN <<cur>> \o SplitDot(Tail(s), <<>>)
    ELSE SplitDot(Tail(s), Append(cur, Head(s)))

\* list(filter(lambda x: x != '', ...))
RECURSIVE NonEmpty(_)
NonEmpty(parts) ==
    IF parts = <<>> THEN <<>>
    ELSE IF Head(parts) = <<>> THEN NonEmpty(Tail(parts))
    ELSE <<Head(parts)>> \o NonEmpty(Tail(parts))

\* line 150
SlotRef(text, slot) == NonEmpty(SplitDot(Strip(Slice(text, slot[1], slot[2])), <<>>))

\* lines 152-158 for one reference: the plug, or the exception raised
\* frame.bindings[field]
Binding(fr, field) ==
    IF field \in DOMAIN fr.bindings THEN [err |-> "none", val |-> fr.bindings[field]]
    ELSE [err |-> "KeyError", val |-> <<>>]

\* line 156, g the outcome of Frame.get(name)
GlobalBinding(g, field) ==
    IF g.err # "none" THEN [err |-> g.err, val |-> <<>>]
    ELSE Binding(g.heap[g.id], field)

Plug(ref, reg, local, h) ==
    IF Len(ref) # 2 THEN [err |-> "ValueError", val |-> <<>>]
    ELSE IF ref[1] \in DOMAIN local THEN Binding(h[local[ref[1]]], ref[2])
    ELSE IF Frame_has(reg, ref[1]) THEN GlobalBinding(Frame_get(reg, h, ref[1]), ref[2])
    ELSE [err |-> "ValueError", val |-> <<>>]

\* the plugs list after one more reference, p its plug
AddPlug(acc, p) ==
    IF acc.err # "none" THEN acc
    ELSE IF p.err # "none" THEN [err |-> p.err, vals |-> <<>>]
    ELSE [err |-> "none", vals |-> Append(acc.vals, p.val)]

RECURSIVE Plugs(_, _, _, _, _, _)
Plugs(text, slots, reg, local, h, acc) ==
    IF slots = <<>> \/ acc.err # "none" THEN acc
    ELSE Plugs(text, Tail(slots), reg, local, h,
               AddPlug(acc, Plug(SlotRef(text, Head(slots)), reg, local, h)))

\* lines 160-165: the loop over the slots, from slot i with the cursor given
RECURSIVE Assemble(_, _, _, _, _)
Assemble(text, slots, plugs, i, cursor) ==
    IF i > Len(slots) THEN <<>>
    ELSE Slice(text, cursor, slots[i][1] + 1) \o plugs[i]
            \o Assemble(text, slots, plugs, i + 1, slots[i][2] + 1)

\* what say prints, or the exception it raises
Render(text, slots, plugs) ==
    IF plugs.err # "none" THEN [err |-> plugs.err, text |-> <<>>]
    ELSE [err |-> "none",
          text |-> Assemble(text, slots, plugs.vals, 1, 0)
                      \o Slice(text, slots[Len(slots)][2], Len(text))]

SayWith(text, slots, reg, local, h) ==
    IF slots = <<>> THEN [err |-> "none", text |-> text]
    ELSE Render(text, slots,
                Plugs(text, slots, reg, local, h, [err |-> "none", vals |-> <<>>]))

say(text, reg, local, h) == SayWith(text, FindSlots(text, 0), reg, local, h)

(***************************************************************************)
(* The scripts Script.initialize loads.  An action string is kept as the   *)
(* result of action.split(':'); a script is [name, lines, frames], a line  *)
(* [text, responses], a response [to_realize, action, transfer].           *)
(***************************************************************************)
Response(to_realize, action, transfer) ==
    [to_realize |-> to_realize, action |-> action, transfer |-> transfer]
Line(text, responses) == [text |-> text, responses |-> responses]

Continue == <<"continue">>
Defer(script) == <<"defer", script>>

T_hi == <<"h", "i">>
T_yo == <<"y", "o">>
T_go == <<"g", "o">>
T_end == <<"e", "n", "d">>
T_who == <<"w", "h", "o", "?">>
\* "$pet.name ok"
T_petname == <<"$">> \o N_pet \o <<".">> \o K_name \o <<" ", "o", "k">>
\* "bye $toy.what"
T_bye == <<"b", "y", "e", " ", "$">> \o N_toy \o <<".">> \o K_what
\* "$tag.id!"
T_tag == <<"$">> \o N_tag \o <<".">> \o K_id \o <<"!">>

ScriptA ==
    [name |-> "a",
     lines |-> << Line(T_hi, << Response(<<N_pet>>, Continue, FALSE),
                                Response(<<N_toy>>, Defer("b"), TRUE) >>),
                  Line(T_petname, << Response(<<N_toy>>, Defer("b"), FALSE),
                                     Response(<<N_pet>>, <<"goto", "b">>, FALSE) >>) >>,
     frames |-> <<PetFrame, ToyFrame>>]

ScriptB ==
    [name |-> "b",
     lines |-> << Line(T_yo, << Response(<<N_pet>>, Defer("a"), FALSE),
                                Response(<<N_toy>>, Continue, FALSE) >>),
                  Line(T_bye, <<>>) >>,
     frames |-> <<PetFrame, ToyFrame>>]

ScriptC ==
    [name |-> "c",
     lines |-> << Line(T_go, << Response(<<N_tag, N_nil>>, Continue, FALSE) >>),
                  Line(T_tag, << Response(<<N_toy>>, Defer("zz"), TRUE),
                                 Response(<<N_ok, N_tag>>, Continue, FALSE) >>),
                  Line(T_end, << Response(<<N_ok>>, Continue, FALSE) >>) >>,
     frames |-> <<TagFrame, NilFrame, ToyFrame>>]

\* its local frame 'it' has the name of a registered frame
ScriptD ==
    [name |-> "d",
     lines |-> << Line(T_go, << Response(<<N_box>>, Continue, FALSE) >>),
                  Line(T_hi, <<>>),
                  Line(T_who, << Response(<<N_it>>, Continue, FALSE),
                                 Response(<<N_it, N_box>>, Continue, FALSE),
                                 Response(<<N_who>>, Continue, FALSE) >>) >>,
     frames |-> <<BoxFrame, ItFrame>>]

\* Script._SCRIPTS
ScriptList == <<ScriptA, ScriptB, ScriptC, ScriptD>>
ScriptNames == {ScriptList[i].name : i \in DOMAIN ScriptList}
Script(name) == ScriptList[CHOOSE i \in DOMAIN ScriptList : ScriptList[i].name = name]

\* the answers a user may give, as word_tokenize returns them
Answers == UNION {[1..n -> Words] : n \in 0..MaxTokens}

(***************************************************************************)
(* State.                                                                  *)
(***************************************************************************)
VARIABLES
    registry,      \* Frame._FRAMES: frame name -> object id of the template
    heap,          \* the Frame objects, by object id
    local_frames,  \* Script.local_frames of every script: frame name -> object id
    stack,         \* the active Script.execute calls, outermost first
    err,           \* the exception that ended the program, or "none"
    out,           \* the last console event: [seq, exec, kind, text]
    answer,        \* the last answer read by input()
    sats,          \* the ratios satisfy returned for the last answer, per response
    probe,         \* a line given to Line.say on its own: [pieces, res]
    load,          \* Frame.initialize on its own: the directory and how far it got
    search,        \* Response.hypernym_search on its own, call by call
    ask            \* one question of the elicitation loop on its own

vars == <<registry, heap, local_frames, stack, err, out, answer, sats, probe, load, search, ask>>

\* the heap after Frame.initialize and Script.initialize: the global
\* templates, then every script's local frames
RECURSIVE FramesBefore(_)
FramesBefore(i) == IF i = 1 THEN 0 ELSE FramesBefore(i - 1) + Len(ScriptList[i - 1].frames)

InitHeap == GlobalDefs \o Concat([i \in DOMAIN ScriptList |-> ScriptList[i].frames])

InitRegistry == [n \in {GlobalDefs[i].name : i \in DOMAIN GlobalDefs} |->
                    CHOOSE i \in DOMAIN GlobalDefs : GlobalDefs[i].name = n]

InitLocal ==
    [s \in ScriptNames |->
        LET i == CHOOSE j \in DOMAIN ScriptList : ScriptList[j].name = s
            fs == ScriptList[i].frames
        IN  [n \in {fs[j].name : j \in DOMAIN fs} |->
                Len(GlobalDefs) + FramesBefore(i)
                    + (CHOOSE j \in DOMAIN fs : fs[j].name = n)]]

NoOut == [seq |-> 0, exec |-> 0, kind |-> "none", text |-> <<>>]
NoProbe == [pieces |-> <<>>, res |-> [err |-> "none", text |-> <<>>], done |-> FALSE]
NoLoad == [dir |-> <<>>, item |-> 1, pending |-> {}, printed |-> 0]
NoSearch == [hypernyms |-> <<>>, fltr |-> <<>>, start |-> <<>>, calls |-> <<>>,
             examined |-> <<>>, result |-> "none"]
NoAsk == [to_realize |-> <<>>, frame |-> 0, field |-> <<>>, asked |-> 0, got |-> FALSE]

\* a console event by the execution at stack position exec
Emit(exec, kind, text) == [seq |-> 1 - out.seq, exec |-> exec, kind |-> kind, text |-> text]

\* a ratio is a pair <<sat, total>>
Greater(x, y) == x[1] * y[2] > y[1] * x[2]
SameRatio(x, y) == x[1] * y[2] = y[1] * x[2]
Zero == <<0, 1>>

\* one Script.execute call: the line it is at (1-based), where it stands, and
\* the locals best_sat, best_frames, best_r (0 for None)
Exec(script, line, pc) ==
    [script |-> script, line |-> line, pc |-> pc,
     best_sat |-> Zero, best_frames |-> EmptyMap, best_r |-> 0]

\* the for loop of line 295 taking its next line, or falling off its end
Enter(script, line) ==
    IF line > Len(Script(script).lines) THEN Exec(script, line - 1, "done")
    ELSE Exec(script, line, "say")

Top == stack[Len(stack)]
SetTop(e) == [stack EXCEPT ![Len(stack)] = e]
Running == err = "none" /\ stack # <<>>

\* main(): Script.get(args.script).execute()
Init ==
    /\ registry = InitRegistry
    /\ heap = InitHeap
    /\ local_frames = InitLocal
    /\ \E s \in ScriptNames : stack = <<Enter(s, 1)>>
    /\ err = "none"
    /\ out = NoOut
    /\ answer = <<>>
    /\ sats = <<>>
    /\ probe = NoProbe
    /\ load = NoLoad
    /\ search = NoSearch
    /\ ask = NoAsk

\* an exception propagates out of every execute call and ends the program
Raise(e) ==
    /\ err' = e
    /\ UNCHANGED <<registry, heap, local_frames, stack, out, answer, sats, probe, load, search, ask>>

(***************************************************************************)
(* Script.execute, lines 296-300: say the line; a line without responses   *)
(* takes no input.                                                         *)
(***************************************************************************)
CurrentLine == Script(Top.script).lines[Top.line]

\* a line that is taken to have responses whatever it has
NoResponsesNever(line) == FALSE

\* line 298: `if not line.responses`
NoResponses(line) == line.responses = <<>>

\* r is what say printed or raised
Said(r) ==
    IF r.err # "none" THEN Raise(r.err)
    ELSE /\ out' = Emit(Len(stack), "say", r.text)
         /\ stack' = SetTop(IF NoResponses(CurrentLine)
                            THEN Enter(Top.script, Top.line + 1)
                            ELSE [Top EXCEPT !.pc = "input"])
         /\ UNCHANGED <<registry, heap, local_frames, err, answer, sats, probe, load, search, ask>>

SayLine ==
    /\ Running
    /\ Top.pc = "say"
    /\ Said(say(CurrentLine.text, registry, local_frames[Top.script], heap))

(***************************************************************************)
(* Script.execute, lines 303-314: read an answer, run satisfy for every    *)
(* response in order, keep the first one with the strictly greatest ratio. *)
(* satisfy binds the local instances in place, so the heap is threaded     *)
(* through the calls.                                                      *)
(***************************************************************************)
\* a comparison that also replaces the best on an equal ratio
BetterOrEqual(sat, best_sat) == ~Greater(best_sat, sat)

\* line 308
Better(sat, best_sat) == Greater(sat, best_sat)

\* lines 308-309, s the outcome of satisfy for response i
Keep(best, i, s) ==
    IF Better(s.sat, best.best_sat)
    THEN [best EXCEPT !.best_sat = s.sat, !.best_frames = s.frames, !.best_r = i,
                      !.sats = Append(@, s.sat)]
    ELSE [best EXCEPT !.sats = Append(@, s.sat)]

RECURSIVE MatchLoop(_, _, _, _, _, _, _)
MatchRest(rs, i, ans, reg, local, h, best, s) ==
    IF s.err # "none" THEN [best EXCEPT !.err = s.err, !.heap = h]
    ELSE MatchLoop(rs, i + 1, ans, reg, local, s.heap, Keep(best, i, s))

MatchLoop(rs, i, ans, reg, local, h, best) ==
    IF i > Len(rs) THEN [best EXCEPT !.err = "none", !.heap = h]
    ELSE MatchRest(rs, i, ans, reg, local, h, best,
                   satisfy(rs[i].to_realize, ans, reg, local, h))

\* Copies made by Frame.get that nothing refers to once the loop is over are
\* dropped; the ones best_frames keeps are renumbered to follow the n0
\* objects that existed before.
Kept(h, bf, n0) == {i \in (n0 + 1)..Len(h) : \E n \in DOMAIN bf : bf[n] = i}
Rank(h, bf, n0, i) == n0 + Cardinality({j \in Kept(h, bf, n0) : j <= i})
Compact(h, bf, n0) ==
    [heap |-> [k \in 1..(n0 + Cardinality(Kept(h, bf, n0))) |->
                  IF k <= n0 THEN h[k]
                  ELSE h[CHOOSE i \in Kept(h, bf, n0) : Rank(h, bf, n0, i) = k]],
     frames |-> [n \in DOMAIN bf |->
                    IF bf[n] <= n0 THEN bf[n] ELSE Rank(h, bf, n0, bf[n])]]

\* lines 311-314, m what the loop over the responses left and c its heap
\* and best_frames without the dropped copies
Selected(m, c) ==
    /\ err' = err
    /\ heap' = c.heap
    /\ sats' = m.sats
    /\ IF m.best_r = 0
       THEN /\ out' = Emit(Len(stack), "notunderstood", <<>>)
            /\ stack' = stack
       ELSE /\ out' = Emit(Len(stack), "input", <<>>)
            /\ stack' = SetTop([Top EXCEPT !.pc = "matched",
                                           !.best_sat = m.best_sat,
                                           !.best_frames = c.frames,
                                           !.best_r = m.best_r])

Matched(m) ==
    IF m.err # "none"
    THEN /\ err' = m.err
         /\ UNCHANGED <<heap, stack, out, sats>>
    ELSE Selected(m, Compact(m.heap, m.best_frames, Len(heap)))

Match(ans) ==
    /\ Running
    /\ Top.pc = "input"
    /\ answer' = ans
    /\ Matched(MatchLoop(CurrentLine.responses, 1, ans, registry,
                         local_frames[Top.script], heap,
                         [err |-> "none", heap |-> heap, best_sat |-> Top.best_sat,
                          best_frames |-> Top.best_frames, best_r |-> Top.best_r,
                          sats |-> <<>>]))
    /\ UNCHANGED <<registry, local_frames, probe, load, search, ask>>

(***************************************************************************)
(* Script.execute, lines 316-338: with a ratio other than 1 the loop over  *)
(* best_frames opens by printing f.desc.  No Frame has a desc attribute    *)
(* (Frame.__init__ sets name, fields and bindings only), so the first      *)
(* iteration raises AttributeError before any question is asked.           *)
(***************************************************************************)
HasDesc(fr) == "desc" \in DOMAIN fr

Elicit ==
    /\ Running
    /\ Top.pc = "matched"
    /\ Top.best_sat[1] # Top.best_sat[2]
    /\ \E n \in DOMAIN Top.best_frames : ~HasDesc(heap[Top.best_frames[n]])
    /\ Raise("AttributeError")

(***************************************************************************)
(* Script.execute, lines 341-354 and, for a defer, lines 291-292 of the    *)
(* callee: merge best_frames into the local store and act.                 *)
(***************************************************************************)
\* a caller that goes on with its next line when the callee returns
AfterDeferResume(e) == Enter(e.script, e.line + 1)

\* line 352
AfterDefer(e) == [e EXCEPT !.pc = "done"]

\* a test of the number of parts only
InvalidLength(res) == Len(res) # 2

\* line 347, res the action split at ':'
InvalidAction(res) == Len(res) # 2 \/ res[1] # "defer"

Apply ==
    /\ Running
    /\ Top.pc = "matched"
    /\ Top.best_sat[1] = Top.best_sat[2]
    /\ LET me == Top.script
           r == Script(me).lines[Top.line].responses[Top.best_r]
           merged == [local_frames EXCEPT ![me] = Update(@, Top.best_frames)]
       IN  IF r.action = Continue
           THEN /\ local_frames' = merged
                /\ stack' = SetTop(Enter(me, Top.line + 1))
                /\ UNCHANGED <<registry, heap, err, out, answer, sats, probe, load, search, ask>>
           ELSE IF InvalidAction(r.action)
           THEN /\ local_frames' = merged
                /\ err' = "ValueError"
                /\ UNCHANGED <<registry, heap, stack, out, answer, sats, probe, load, search, ask>>
           ELSE IF r.action[2] \notin ScriptNames
           THEN /\ local_frames' = merged
                /\ err' = "KeyError"
                /\ UNCHANGED <<registry, heap, stack, out, answer, sats, probe, load, search, ask>>
           ELSE /\ Len(stack) < MaxDepth
                /\ local_frames' =
                      IF r.transfer
                      THEN [merged EXCEPT ![r.action[2]] = Update(@, merged[me])]
                      ELSE merged
                /\ stack' = Append(SetTop([Top EXCEPT !.pc = "deferred"]),
                                   Enter(r.action[2], 1))
                /\ UNCHANGED <<registry, heap, err, out, answer, sats, probe, load, search, ask>>

\* the callee's execute returns; line 352 returns from the caller
Return ==
    /\ Running
    /\ Len(stack) > 1
    /\ Top.pc = "done"
    /\ stack' = [i \in 1..(Len(stack) - 1) |->
                    IF i = Len(stack) - 1 THEN AfterDefer(stack[i]) ELSE stack[i]]
    /\ UNCHANGED <<registry, heap, local_frames, err, out, answer, sats, probe, load, search, ask>>

Next ==
    \/ SayLine
    \/ \E ans \in Answers : Match(ans)
    \/ Elicit
    \/ Apply
    \/ Return

Spec == Init /\ [][Next]_vars

(***************************************************************************)
(* Line.say on its own: a line whose text is put together from literal     *)
(* pieces and slot references, said against the local store of script a    *)
(* in the states that store can be in.                                     *)
(***************************************************************************)
Lit(chars) == [kind |-> "lit", chars |-> chars, name |-> <<>>, field |-> <<>>]
Ref(name, field) ==
    [kind |-> "ref", chars |-> <<"$">> \o name \o <<".">> \o field,
     name |-> name, field |-> field]

Pieces == {Lit(<<" ">>), Lit(<<"!">>), Lit(<<"h", "i">>),
           Ref(N_pet, K_name), Ref(N_toy, K_what)}

\* a literal that opens with a slot character would lengthen the reference
\* before it, so such a literal never follows a reference
WellFormed(ps) ==
    \A i \in 1..(Len(ps) - 1) :
        ps[i].kind = "ref" => ~(ps[i + 1].kind = "lit" /\ IsSlotChar(ps[i + 1].chars[1]))

PieceSeqs == {ps \in UNION {[1..n -> Pieces] : n \in 0..MaxPieces} : WellFormed(ps)}

TextOf(ps) == Concat([i \in DOMAIN ps |-> ps[i].chars])

\* the heap with the fields of script a's pet and toy bound as given
BoundHeap(pet, toy) ==
    [InitHeap EXCEPT ![InitLocal["a"][N_pet]].bindings = pet,
                     ![InitLocal["a"][N_toy]].bindings = toy]

InitSay ==
    /\ registry = InitRegistry
    /\ \E pet \in {EmptyMap, (K_kind :> W_cat) @@ (K_name :> W_rex)},
          toy \in {EmptyMap, (K_what :> W_ball)} : heap = BoundHeap(pet, toy)
    /\ local_frames = InitLocal
    /\ stack = <<>>
    /\ err = "none"
    /\ out = NoOut
    /\ answer = <<>>
    /\ sats = <<>>
    /\ \E ps \in PieceSeqs : probe = [NoProbe EXCEPT !.pieces = ps]
    /\ load = NoLoad
    /\ search = NoSearch
    /\ ask = NoAsk

ProbeSay ==
    /\ ~probe.done
    /\ probe' = [probe EXCEPT
                    !.res = say(TextOf(probe.pieces), registry, local_frames["a"], heap),
                    !.done = TRUE]
    /\ UNCHANGED <<registry, heap, local_frames, stack, err, out, answer, sats, load, search, ask>>

NextSay == ProbeSay

SpecSay == InitSay /\ [][NextSay]_vars

(***************************************************************************)
(* Frame.initialize on its own: the definition files of a directory, in    *)
(* the order listdir returns them.  parse_set returns a file's frames as a *)
(* set of objects hashed by identity, so they are stored in any order; a   *)
(* file with an unexpected tag under <frames> raises FrameParseException   *)
(* before parse_set returns, and that is the one exception initialize      *)
(* catches.                                                                *)
(***************************************************************************)
FrameFile(frames, malformed) == [frames |-> frames, malformed |-> malformed]

FrameFiles ==
    {FrameFile(fs, m) : fs \in UNION {[1..n -> Range(GlobalDefs)] : n \in 0..MaxFrames},
                        m \in BOOLEAN}

Directories == UNION {[1..n -> FrameFiles] : n \in 0..MaxFiles}

\* Frame.store
Frame_store(reg, h, item) ==
    IF item.name \in DOMAIN reg
    THEN [err |-> "KeyError", registry |-> reg, heap |-> h]
    ELSE [err |-> "none", registry |-> Put(reg, item.name, Len(h) + 1),
          heap |-> Append(h, item)]

InitLoad ==
    /\ registry = EmptyMap
    /\ heap = <<>>
    /\ local_frames = EmptyMap
    /\ stack = <<>>
    /\ err = "none"
    /\ out = NoOut
    /\ answer = <<>>
    /\ sats = <<>>
    /\ probe = NoProbe
    /\ \E d \in Directories : load = [NoLoad EXCEPT !.dir = d]
    /\ search = NoSearch
    /\ ask = NoAsk

Loading == err = "none" /\ load.item <= Len(load.dir)
Loaded == err = "none" /\ load.item > Len(load.dir)

\* lines 158-161: the next item of the directory is parsed
ParseSet ==
    /\ Loading
    /\ load.pending = {}
    /\ load' = IF load.dir[load.item].malformed
               THEN [load EXCEPT !.item = @ + 1, !.printed = @ + 1]
               ELSE IF load.dir[load.item].frames = <<>>
               THEN [load EXCEPT !.item = @ + 1]
               ELSE [load EXCEPT !.pending = DOMAIN load.dir[load.item].frames]
    /\ UNCHANGED <<registry, heap, local_frames, stack, err, out, answer, sats,
                   probe, search, ask>>

\* s is what Frame.store did with frame i of the file; a KeyError is not a
\* FrameParseException, so it leaves initialize
Stored(i, s) ==
    IF s.err # "none"
    THEN /\ err' = s.err
         /\ UNCHANGED <<registry, heap, load>>
    ELSE /\ err' = err
         /\ registry' = s.registry
         /\ heap' = s.heap
         /\ load' = IF load.pending = {i}
                    THEN [load EXCEPT !.pending = {}, !.item = @ + 1]
                    ELSE [load EXCEPT !.pending = @ \ {i}]

\* lines 160-161: one iteration of the loop over the parsed set
Store ==
    /\ Loading
    /\ \E i \in load.pending :
          Stored(i, Frame_store(registry, heap, load.dir[load.item].frames[i]))
    /\ UNCHANGED <<local_frames, stack, out, answer, sats, probe, search, ask>>

NextLoad ==
    \/ ParseSet
    \/ Store

SpecLoad == InitLoad /\ [][NextLoad]_vars

(***************************************************************************)
(* Response.hypernym_search on its own, one step per call, test and        *)
(* return, over the acyclic ontology fragments on the first MaxSenses      *)
(* senses of SenseOrder: an edge leads from a sense to a later one, and    *)
(* Synset.hypernyms() lists a sense's parents in that order.               *)
(***************************************************************************)
SenseOrder == <<S_cat, S_feline, S_domestic, S_animal, S_organism, S_person>>

Edges == {e \in (1..MaxSenses) \X (1..MaxSenses) : e[1] < e[2]}

RECURSIVE Ascending(_)
Ascending(S) ==
    IF S = {} THEN <<>>
    ELSE <<SenseOrder[CHOOSE j \in S : \A k \in S : j <= k]>>
            \o Ascending(S \ {CHOOSE j \in S : \A k \in S : j <= k})

\* the hypernyms() of every sense of the fragment with the edges es
Fragment(es) ==
    [s \in {SenseOrder[i] : i \in 1..MaxSenses} |->
        Ascending({e[2] : e \in {d \in es : SenseOrder[d[1]] = s}})]

SearchFilters == {FltAnimal, FltArtifact}

\* one hypernym_search call: its sense, the parent its loop is at (0 before
\* the test of lines 108-110) and its local match
Call(sense) == [sense |-> sense, at |-> 0, match |-> FALSE]

InitSearch ==
    /\ registry = InitRegistry
    /\ heap = InitHeap
    /\ local_frames = InitLocal
    /\ stack = <<>>
    /\ err = "none"
    /\ out = NoOut
    /\ answer = <<>>
    /\ sats = <<>>
    /\ probe = NoProbe
    /\ load = NoLoad
    /\ \E es \in SUBSET Edges, i \in 1..MaxSenses, f \in SearchFilters :
          search = [NoSearch EXCEPT !.hypernyms = Fragment(es), !.fltr = f,
                                    !.start = SenseOrder[i],
                                    !.calls = <<Call(SenseOrder[i])>>]
    /\ ask = NoAsk

Searching == search.calls # <<>>
Innermost == search.calls[Len(search.calls)]
Parents == search.hypernyms[Innermost.sense]

\* a disjunction that gives the found answer whatever came back
JoinedAlways(match, v) == TRUE

\* a conjunction in the place of the disjunction
JoinedBoth(match, v) == match /\ v

\* line 114: match or hypernym_search(hp, fltr)
Joined(match, v) == match \/ v

\* a call returns v: the outermost call's value is the result, any other
\* goes into its caller's match at line 114
Deliver(v) ==
    IF Len(search.calls) = 1
    THEN [search EXCEPT !.calls = <<>>, !.result = IF v THEN "true" ELSE "false"]
    ELSE [search EXCEPT
             !.calls = [i \in 1..(Len(search.calls) - 1) |->
                           IF i = Len(search.calls) - 1
                           THEN [search.calls[i] EXCEPT
                                    !.match = Joined(@, v), !.at = @ + 1]
                           ELSE search.calls[i]]]

\* lines 108-110
SearchTest ==
    /\ Searching
    /\ Innermost.at = 0
    /\ search' =
          IF sense_match(search.fltr, Innermost.sense)
          THEN [Deliver(TRUE) EXCEPT !.examined = Append(@, Innermost.sense)]
          ELSE [search EXCEPT !.examined = Append(@, Innermost.sense),
                              !.calls[Len(search.calls)].at = 1]
    /\ UNCHANGED <<registry, heap, local_frames, stack, err, out, answer, sats,
                   probe, load, ask>>

\* lines 113-114: `or` does not call once match is true
SearchParent ==
    /\ Searching
    /\ Innermost.at \in DOMAIN Parents
    /\ search' =
          IF Innermost.match
          THEN [search EXCEPT !.calls[Len(search.calls)].at = @ + 1]
          ELSE [search EXCEPT !.calls = Append(@, Call(Parents[Innermost.at]))]
    /\ UNCHANGED <<registry, heap, local_frames, stack, err, out, answer, sats,
                   probe, load, ask>>

\* line 116
SearchReturn ==
    /\ Searching
    /\ Innermost.at > Len(Parents)
    /\ search' = Deliver(Innermost.match)
    /\ UNCHANGED <<registry, heap, local_frames, stack, err, out, answer, sats,
                   probe, load, ask>>

NextSearch ==
    \/ SearchTest
    \/ SearchParent
    \/ SearchReturn

SpecSearch == InitSearch /\ [][NextSearch]_vars

\* a call that can take a step takes it
SpecSearchFair == SpecSearch /\ WF_vars(NextSearch)

(***************************************************************************)
(* Script.execute, lines 326-338, on its own: the question loop for one    *)
(* unbound field of one frame of best_frames, entered in the state that    *)
(* satisfy leaves when it returns a ratio strictly between 0 and 1 for a   *)
(* response of a script.  (In execute, line 320 raises before the loop.)   *)
(***************************************************************************)
\* m is what satisfy returned for the response with the names to_realize
AskAbout(to_realize, m) ==
    /\ m.err = "none"
    /\ 0 < m.sat[1]
    /\ m.sat[1] < m.sat[2]
    /\ heap = m.heap
    /\ \E n \in DOMAIN m.frames :
          \E k \in (DOMAIN m.heap[m.frames[n]].fields)
                      \ (DOMAIN m.heap[m.frames[n]].bindings) :
              ask = [NoAsk EXCEPT !.to_realize = to_realize,
                                  !.frame = m.frames[n], !.field = k]

InitAsk ==
    /\ registry = InitRegistry
    /\ local_frames = InitLocal
    /\ stack = <<>>
    /\ err = "none"
    /\ out = NoOut
    /\ sats = <<>>
    /\ probe = NoProbe
    /\ load = NoLoad
    /\ search = NoSearch
    /\ answer \in Answers
    /\ \E i \in DOMAIN ScriptList : \E l \in DOMAIN ScriptList[i].lines :
          \E j \in DOMAIN ScriptList[i].lines[l].responses :
              AskAbout(ScriptList[i].lines[l].responses[j].to_realize,
                       satisfy(ScriptList[i].lines[l].responses[j].to_realize, answer,
                               InitRegistry, InitLocal[ScriptList[i].name], InitHeap))

\* lines 331-338, s what best_r.satisfy(response, {f.name: f}) returned; the
\* copies of registered frames it made are dropped with frame_d
Answered(s) ==
    IF s.err # "none"
    THEN /\ err' = s.err
         /\ UNCHANGED <<heap, out, ask>>
    ELSE /\ err' = err
         /\ heap' = SubSeq(s.heap, 1, Len(heap))
         /\ IF ask.field \in DOMAIN s.heap[s.frames[heap[ask.frame].name]].bindings
            THEN /\ out' = Emit(0, "gotit", s.heap[ask.frame].bindings[ask.field])
                 /\ ask' = [ask EXCEPT !.asked = @ + 1, !.got = TRUE]
            ELSE /\ out' = Emit(0, "stillnot", <<>>)
                 /\ ask' = [ask EXCEPT !.asked = @ + 1]

\* lines 326-338: one turn of the `while True` loop
AskField(ans) ==
    /\ err = "none"
    /\ ask.frame # 0
    /\ ~ask.got
    /\ ask.asked < MaxAsks
    /\ answer' = ans
    /\ Answered(satisfy(ask.to_realize, ans, registry,
                        (heap[ask.frame].name :> ask.frame), heap))
    /\ UNCHANGED <<registry, local_frames, stack, sats, probe, load, search>>

NextAsk == \E ans \in Answers : AskField(ans)

SpecAsk == InitAsk /\ [][NextAsk]_vars

(***************************************************************************)
(* Properties.                                                             *)
(***************************************************************************)
One(sat) == sat[1] = sat[2]
Partial(sat) == 0 < sat[1] /\ sat[1] < sat[2]

\* the response the execution e selected at its line
SelectedResponse(e) == Script(e.script).lines[e.line].responses[e.best_r]

\* C1: satisfy never unbinds or overwrites a field that was bound when the
\* call started: over any step, every bound field of every frame keeps its
\* value (satisfy, called by the Match step, is all that binds).
C1_BoundFieldsKept ==
    [][\A id \in DOMAIN heap : \A k \in DOMAIN heap[id].bindings :
          /\ id \in DOMAIN heap'
          /\ k \in DOMAIN heap'[id].bindings
          /\ heap'[id].bindings[k] = heap[id].bindings[k]]_vars

\* C2: after a response with a ratio strictly between 0 and 1 is selected,
\* execute goes on to ask about an unbound field and raises no error.
C2_PartialAsks ==
    [][(Running /\ Top.pc = "matched" /\ Partial(Top.best_sat))
          => (err' = "none" /\ out'.kind = "ask")]_vars

\* C3: whenever the frames a response resolves have no field at all, satisfy
\* returns ratio 1.0 and raises nothing, whatever the answer.
NoFields(r, h) == \A i \in DOMAIN r.frames : h[r.frames[i]].fields = EmptyMap
RatioOne(s) == s.err = "none" /\ One(s.sat)
C3_ZeroFieldsRatioOne ==
    \A i \in DOMAIN ScriptList : \A l \in DOMAIN ScriptList[i].lines :
        \A j \in DOMAIN ScriptList[i].lines[l].responses : \A ans \in Answers :
            (/\ Resolve(ScriptList[i].lines[l].responses[j].to_realize, registry,
                        local_frames[ScriptList[i].name], heap, <<>>).err = "none"
             /\ NoFields(Resolve(ScriptList[i].lines[l].responses[j].to_realize, registry,
                                 local_frames[ScriptList[i].name], heap, <<>>),
                         Resolve(ScriptList[i].lines[l].responses[j].to_realize, registry,
                                 local_frames[ScriptList[i].name], heap, <<>>).heap))
            => RatioOne(satisfy(ScriptList[i].lines[l].responses[j].to_realize, ans,
                                registry, local_frames[ScriptList[i].name], heap))

\* C4: a text whose slot references are all resolvable and bound is said with
\* every reference replaced by its bound value and every other character as
\* it is in the text.
RefBound(p, local, h) ==
    p.kind = "ref" =>
        (p.name \in DOMAIN local /\ p.field \in DOMAIN h[local[p.name]].bindings)
Expected(ps, local, h) ==
    Concat([i \in DOMAIN ps |->
               IF ps[i].kind = "ref" THEN h[local[ps[i].name]].bindings[ps[i].field]
               ELSE ps[i].chars])
C4_SayRendersText ==
    (probe.done /\ \A i \in DOMAIN probe.pieces :
                       RefBound(probe.pieces[i], local_frames["a"], heap))
        => (/\ probe.res.err = "none"
            /\ probe.res.text = Expected(probe.pieces, local_frames["a"], heap))

\* C5: Frame.get of every registered frame succeeds and yields a new object
\* with the template's name and field-to-filter mapping; the templates'
\* bindings stay empty.
GetCopies(g, h, t) ==
    /\ g.err = "none"
    /\ g.id \notin DOMAIN h
    /\ g.heap[g.id].name = t.name
    /\ DOMAIN g.heap[g.id].fields = DOMAIN t.fields
    /\ \A k \in DOMAIN t.fields : g.heap[g.id].fields[k] = t.fields[k]
C5_GetCopiesTemplate ==
    \A n \in DOMAIN registry :
        /\ heap[registry[n]].bindings = EmptyMap
        /\ GetCopies(Frame_get(registry, heap, n), heap, heap[registry[n]])

\* C6: an execution that has deferred never speaks a line or takes an input
\* again, stays at its line, and has ended as soon as the execution it
\* deferred to has ended.
C6_DeferIsTailCall ==
    [][\A i \in DOMAIN stack : stack[i].pc \in {"deferred", "done"} =>
          /\ (out'.seq # out.seq => out'.exec # i)
          /\ (i \in DOMAIN stack' =>
                 /\ stack'[i].pc \in {"deferred", "done"}
                 /\ stack'[i].script = stack[i].script
                 /\ stack'[i].line = stack[i].line)
          /\ (stack[i].pc = "deferred" /\ Len(stack') = i => stack'[i].pc = "done")]_vars

\* an outermost execution that ended at a line before its last, on a defer
\* response, after the script it deferred to had run and ended
C6_Witness ==
    /\ Len(stack) = 1
    /\ stack[1].pc = "done"
    /\ stack[1].best_r # 0
    /\ stack[1].line < Len(Script(stack[1].script).lines)
    /\ SelectedResponse(stack[1]).action[1] = "defer"

\* C7: when a defer starts script S, S's local store holds every frame of the
\* deferring script's store if the response's transfer flag is set, and none
\* of the deferring script's frame instances if it is not.
Transferred(from, to) ==
    \A n \in DOMAIN from : n \in DOMAIN to /\ to[n] = from[n]
NothingShared(from, to) ==
    \A n \in DOMAIN from : n \in DOMAIN to => to[n] # from[n]
C7_TransferOnlyOnFlag ==
    [][Len(stack') = Len(stack) + 1 =>
          IF SelectedResponse(Top).transfer
          THEN Transferred(local_frames'[Top.script],
                           local_frames'[stack'[Len(stack')].script])
          ELSE stack'[Len(stack')].script # Top.script =>
                  NothingShared(local_frames'[Top.script],
                                local_frames'[stack'[Len(stack')].script])]_vars

\* C8: after a defer with transfer, no step of the target script's execution
\* changes a frame held in the deferring script's local store.
Caller == stack[Len(stack) - 1]
C8_NoSharedInstances ==
    [][(/\ Len(stack) > 1
        /\ Caller.pc = "deferred"
        /\ SelectedResponse(Caller).transfer
        /\ Caller.script # Top.script)
          => \A n \in DOMAIN local_frames[Caller.script] :
                heap'[local_frames[Caller.script][n]]
                    = heap[local_frames[Caller.script][n]]]_vars

\* C9: the response selected for an answer has a ratio above 0, no response
\* has a greater ratio, and every response listed before it has a smaller one.
C9_SelectsFirstBest ==
    (Running /\ Top.pc = "matched") =>
        /\ Top.best_r \in DOMAIN sats
        /\ Len(sats) = Len(CurrentLine.responses)
        /\ Top.best_sat = sats[Top.best_r]
        /\ Greater(sats[Top.best_r], Zero)
        /\ \A j \in DOMAIN sats : ~Greater(sats[j], sats[Top.best_r])
        /\ \A j \in 1..(Top.best_r - 1) : Greater(sats[Top.best_r], sats[j])

\* two responses tie at the greatest ratio and the first was selected
C9_Witness ==
    /\ Running
    /\ Top.pc = "matched"
    /\ Len(sats) = 2
    /\ Top.best_r = 1
    /\ SameRatio(sats[1], sats[2])

\* C10: an answer that binds no field of any frame the line's responses
\* realize gets the not-understood message: no error, no advance, no defer.
CanBind(fr, ans) ==
    \E k \in DOMAIN fr.fields : \E t \in DOMAIN ans :
        word_match(fr.fields[k], ans[t]) /\ any_match(fr.fields[k], ans[t])
Understood(r, ans) ==
    \E i \in DOMAIN r.to_realize :
        \/ /\ r.to_realize[i] \in DOMAIN registry
           /\ CanBind(heap[registry[r.to_realize[i]]], ans)
        \/ /\ r.to_realize[i] \in DOMAIN local_frames[Top.script]
           /\ CanBind(heap[local_frames[Top.script][r.to_realize[i]]], ans)
C10_NotUnderstoodReprompts ==
    [][(/\ Running
        /\ Top.pc = "input"
        /\ answer' \in Answers
        /\ \A j \in DOMAIN CurrentLine.responses :
              ~Understood(CurrentLine.responses[j], answer'))
          => (/\ err' = "none"
              /\ stack' = stack
              /\ out'.kind = "notunderstood")]_vars

\* the frame names the well-formed files of the directory define
DefinedNames ==
    UNION {{load.dir[i].frames[j].name : j \in DOMAIN load.dir[i].frames} :
              i \in {k \in DOMAIN load.dir : ~load.dir[k].malformed}}

\* C11: Frame.initialize raises nothing when a file defines a frame name that
\* is registered already, and once it is through the directory every frame
\* name defined by a well-formed file is registered.
C11_DuplicateConfined ==
    /\ err = "none"
    /\ Loaded => \A n \in DefinedNames : n \in DOMAIN registry

\* the sense the search started at and everything above it
RECURSIVE Above(_, _)
Above(S, n) ==
    IF n = 0 THEN S
    ELSE Above(S \cup UNION {Range(search.hypernyms[s]) : s \in S}, n - 1)
Ancestry == Above({search.start}, MaxSenses)
NoneMatches == \A s \in Ancestry : ~sense_match(search.fltr, s)

\* C12: on every acyclic fragment the search comes to an end, and when neither
\* the sense nor any of its ancestors satisfies the filter it returns false.
C12_SearchTerminates ==
    /\ search.calls # <<>> ~> search.result # "none"
    /\ [](search.result # "none" /\ NoneMatches => search.result = "false")

\* a search that ended false after two paths had met at a shared ancestor
C12_Witness ==
    /\ search.result = "false"
    /\ \E s \in Ancestry : \E p, q \in Ancestry :
          p # q /\ s \in Range(search.hypernyms[p]) /\ s \in Range(search.hypernyms[q])

\* C20: within one search no sense is tested more than once.
C20_ExaminedOnce ==
    \A i, j \in DOMAIN search.examined :
        i # j => search.examined[i] # search.examined[j]

\* the bound fields and the fields of the frames a satisfy call returned
ReturnedBound(s) ==
    Cardinality(UNION {{<<n, k>> : k \in DOMAIN s.heap[s.frames[n]].bindings} :
                          n \in DOMAIN s.frames})
ReturnedFields(s) ==
    Cardinality(UNION {{<<n, k>> : k \in DOMAIN s.heap[s.frames[n]].fields} :
                          n \in DOMAIN s.frames})
CountsReturned(s) ==
    /\ s.sat[1] <= s.sat[2]
    /\ s.sat[1] * ReturnedFields(s) = ReturnedBound(s) * s.sat[2]
RatioOfReturned(s) == s.err = "none" => CountsReturned(s)

\* C13: for every response of every script and every answer, the ratio that
\* satisfy returns is in [0,1] and is the bound fields of the frames it
\* returns over the fields of the frames it returns.
C13_RatioCountsReturned ==
    \A i \in DOMAIN ScriptList : \A l \in DOMAIN ScriptList[i].lines :
        \A j \in DOMAIN ScriptList[i].lines[l].responses : \A ans \in Answers :
            RatioOfReturned(satisfy(ScriptList[i].lines[l].responses[j].to_realize, ans,
                                    registry, local_frames[ScriptList[i].name], heap))

\* C14: in every frame, template, local, realized or transferred, the bound
\* field names are field names of the frame.
C14_BindingsWithinFields ==
    \A id \in DOMAIN heap : DOMAIN heap[id].bindings \subseteq DOMAIN heap[id].fields

\* a frame with a field bound that a transfer put into a second script's store
C14_Witness ==
    \E s, t \in ScriptNames : \E n \in DOMAIN local_frames[s] :
        /\ s # t
        /\ n \in DOMAIN local_frames[t]
        /\ local_frames[t][n] = local_frames[s][n]
        /\ heap[local_frames[s][n]].bindings # EmptyMap

\* 'continue', or 'defer:<script>'
ValidForm(action) == action = Continue \/ (Len(action) = 2 /\ action[1] = "defer")

\* C15: when the selected response's action is neither 'continue' nor
\* 'defer:<script>', applying it raises the invalid-action ValueError, starts
\* no script and prints nothing, and no step follows an error.
C15_InvalidActionRaises ==
    [][/\ err = "none"
       /\ (/\ Top.pc = "matched"
           /\ One(Top.best_sat)
           /\ ~ValidForm(SelectedResponse(Top).action))
             => (err' = "ValueError" /\ stack' = stack /\ out' = out)]_vars

\* the program ended on the ValueError of an invalid action
C15_Witness ==
    /\ err = "ValueError"
    /\ Top.pc = "matched"
    /\ ~ValidForm(SelectedResponse(Top).action)

\* the line an execution is at
LineOf(e) == Script(e.script).lines[e.line]

\* C16: no execution waits for input at a line without responses: once such
\* a line is spoken the execution is at the next line, about to speak it, or
\* has ended if the line was the script's last.
C16_NoResponsesNoInput ==
    [][/\ \A i \in DOMAIN stack' :
             stack'[i].pc = "input" => LineOf(stack'[i]).responses # <<>>
       /\ (Running /\ Top.pc = "say" /\ LineOf(Top).responses = <<>> /\ err' = "none")
             => /\ out'.kind = "say"
                /\ Len(stack') = Len(stack)
                /\ stack'[Len(stack)].script = Top.script
                /\ IF Top.line < Len(Script(Top.script).lines)
                   THEN stack'[Len(stack)].pc = "say"
                        /\ stack'[Len(stack)].line = Top.line + 1
                   ELSE stack'[Len(stack)].pc = "done"]_vars

\* an execution about to speak the line after a line without responses
C16_Witness ==
    /\ Running
    /\ Top.pc = "say"
    /\ Top.line > 1
    /\ Script(Top.script).lines[Top.line - 1].responses = <<>>
    /\ out.kind = "say"

\* the first token of the answer that the filter accepts
Accepts(fltr, word) == word_match(fltr, word) /\ any_match(fltr, word)
FirstAccepted(fltr, ans) ==
    ans[CHOOSE i \in DOMAIN ans :
           /\ Accepts(fltr, ans[i])
           /\ \A j \in 1..(i - 1) : ~Accepts(fltr, ans[j])]

\* C17: a field that the satisfy calls for one answer bind holds the first
\* token of the answer that its filter accepts.
C17_FirstTokenWins ==
    [][\A id \in DOMAIN heap : \A k \in DOMAIN heap'[id].bindings :
          k \notin DOMAIN heap[id].bindings =>
              heap'[id].bindings[k] = FirstAccepted(heap[id].fields[k], answer')]_vars

\* the frames list of lines 41-46 has one instance for every name that is
\* registered or local, and the local instance for a name that is local
ResolvedOnce(names, local, r) ==
    /\ Len(r.frames) =
          Cardinality({i \in DOMAIN names : names[i] \in (DOMAIN local) \cup (DOMAIN registry)})
    /\ \A i \in DOMAIN r.frames :
          r.heap[r.frames[i]].name \in DOMAIN local =>
              r.frames[i] = local[r.heap[r.frames[i]].name]
ResolvesOnce(names, local, r) == r.err = "none" => ResolvedOnce(names, local, r)

\* C18: for every response of every script, satisfy resolves each name of
\* to_realize to one instance, the local one when the local store has it.
C18_OneInstancePerName ==
    \A i \in DOMAIN ScriptList : \A l \in DOMAIN ScriptList[i].lines :
        \A j \in DOMAIN ScriptList[i].lines[l].responses :
            ResolvesOnce(ScriptList[i].lines[l].responses[j].to_realize,
                         local_frames[ScriptList[i].name],
                         Resolve(ScriptList[i].lines[l].responses[j].to_realize, registry,
                                 local_frames[ScriptList[i].name], heap, <<>>))

C21_TrueIffAncestorMatches ==
    search.result # "none" => (search.result = "true" <=> ~NoneMatches)

\* a search that returned true for a sense with several parents that does
\* not satisfy the filter itself and whose first parent's line has no match
C21_Witness ==
    /\ search.result = "true"
    /\ ~sense_match(search.fltr, search.start)
    /\ Len(search.hypernyms[search.start]) > 1
    /\ Len(search.examined) > 2
    /\ ~sense_match(search.fltr, search.examined[2])

\* the execution that was at the top of the stack, after the step
TopAfter == stack'[Len(stack)]

\* C22: the satisfy calls for one answer change no frame of the script's
\* local store but those the selected response realizes; with no response
\* selected they change none.
C22_UnselectedLeavesStore ==
    [][(Running /\ Top.pc = "input") =>
          \A n \in DOMAIN local_frames[Top.script] :
              (\/ TopAfter.pc # "matched"
               \/ n \notin Range(CurrentLine.responses[TopAfter.best_r].to_realize))
                 => heap'[local_frames[Top.script][n]] = heap[local_frames[Top.script][n]]]_vars

\* the execution a defer has just started
Started == stack'[Len(stack')]

\* C23: when a defer starts an execution of a script, every frame of the
\* script's local store is either a frame the defer transferred or one of the
\* script's load-time frames with nothing bound.
C23_StartsFromLoadTime ==
    [][Len(stack') = Len(stack) + 1 =>
          \A n \in DOMAIN local_frames'[Started.script] :
              \/ /\ SelectedResponse(Top).transfer
                 /\ n \in DOMAIN local_frames'[Top.script]
                 /\ local_frames'[Started.script][n] = local_frames'[Top.script][n]
              \/ /\ n \in DOMAIN InitLocal[Started.script]
                 /\ local_frames'[Started.script][n] = InitLocal[Started.script][n]
                 /\ heap'[local_frames'[Started.script][n]].bindings = EmptyMap]_vars

====
